---- MODULE Spec2Model ----
(***************************************************************************)
(* BitFieldArray (src/BitFieldArray/bit_field_array.py): a list of         *)
(* BitField slots, each a width max_bits and an optional value, with       *)
(* masked assignment, export to an integer or to bytes, and decoding.      *)
(*                                                                         *)
(* State: the arrays that have been constructed, the module-level slot     *)
(* _bits_sentinel, and a record of the most recent call (its arguments,    *)
(* the exception it raised, what it returned, and the arrays and the       *)
(* sentinel before it).  `given` holds the widths and values a round-trip  *)
(* run starts from.                                                        *)
(*                                                                         *)
(* Spec:     one array, every method, positive widths.                     *)
(* SpecPair: two arrays and the _bits_sentinel they share.                 *)
(* SpecTrip: assign and export on A, decode on a fresh B.                  *)
(* SpecCtor: the constructor on any list of integers.                      *)
(***************************************************************************)
EXTENDS Integers, Sequences, FiniteSets, TLC

VARIABLES arrays, bits_sentinel, last, given

vars == <<arrays, bits_sentinel, last, given>>

---------------------------------------------------------------------------
(* Bounds and input sets *)

\* Longest field list handed to the constructor.
MaxFields == 3
\* Longest sequence handed to assign().
MaxValues == 2
\* Largest of the small integers handed to from_int().
MaxInt == 9
\* Longest byte string handed to from_bytes().
MaxBytes == 1
\* Longest field list of the two-array runs.
MaxPairFields == 2
\* Longest field list of the round-trip runs.
MaxTripFields == 3
\* Longest field list of the unvalidated-constructor runs.
MaxCtorFields == 2

Widths == {1, 2}
AnyWidths == {-1, 0, 1, 2}
TripWidths == {1, 4}
Values == {-1, 0, 1, 2, 7}
BulkValues == {-1, 6}
PairValues == {1, 2, 7}
ByteValues == {0, 255}
IntValues == (-1..MaxInt) \cup {27, 62}
Orders == {"little", "big"}

SeqsUpTo(S, n) == UNION {[1..k -> S] : k \in 0..n}

---------------------------------------------------------------------------
(* Python integers: shifts and bitwise operators, computed bit by bit *)

\* 1 << k and v << k, for k >= 0 (a negative count raises ValueError).
ShiftLeft(v, k) == v * (2 ^ k)

\* v >> k: arithmetic shift, rounding toward minus infinity.
ShiftRight(v, k) == v \div (2 ^ k)

\* x & y for y >= 0; a negative x is read in two's complement.
RECURSIVE BitAnd(_, _)
BitAnd(x, y) ==
    IF y = 0 THEN 0
    ELSE (IF x % 2 = 1 /\ y % 2 = 1 THEN 1 ELSE 0)
         + 2 * BitAnd(x \div 2, y \div 2)

\* x | y for x, y >= 0.
RECURSIVE BitOr(_, _)
BitOr(x, y) ==
    IF x = 0 THEN y
    ELSE IF y = 0 THEN x
    ELSE (IF x % 2 = 1 \/ y % 2 = 1 THEN 1 ELSE 0)
         + 2 * BitOr(x \div 2, y \div 2)

\* int.bit_length() for n >= 0.
RECURSIVE bit_length(_)
bit_length(n) == IF n = 0 THEN 0 ELSE 1 + bit_length(n \div 2)

\* int.to_bytes(length, 'little') for 0 <= n < 256^length.
RECURSIVE to_bytes_little(_, _)
to_bytes_little(n, length) ==
    IF length = 0 THEN <<>>
    ELSE <<n % 256>> \o to_bytes_little(n \div 256, length - 1)

Reverse(s) == [i \in 1..Len(s) |-> s[Len(s) + 1 - i]]

\* int.to_bytes(length, order)
to_bytes(n, length, order) ==
    IF order = "little" THEN to_bytes_little(n, length)
    ELSE Reverse(to_bytes_little(n, length))

\* int.from_bytes(value, 'little')
RECURSIVE from_bytes_little(_)
from_bytes_little(bs) ==
    IF bs = <<>> THEN 0
    ELSE Head(bs) + 256 * from_bytes_little(Tail(bs))

\* int.from_bytes(value, order)
int_from_bytes(bs, order) ==
    IF order = "little" THEN from_bytes_little(bs)
    ELSE from_bytes_little(Reverse(bs))

---------------------------------------------------------------------------
(* BitField *)

\* The optional value of a slot: None, or one integer.
None == <<>>
Some(v) == <<v>>

\* BitField.__init__
BitField(max_bits) == [max_bits |-> max_bits, value |-> None]

\* mask with the mask one bit too wide: (1 << (bits + 1)) - 1.
mask_one_bit_wide(value, bits) == BitAnd(value, ShiftLeft(1, bits + 1) - 1)

\* BitField.mask; defined for bits >= 0 (1 << bits raises ValueError below 0)
mask(value, bits) == BitAnd(value, ShiftLeft(1, bits) - 1)

\* BitField.is_null
is_null(bits) == bits.value = None

\* BitField.assign, through the value setter
slot_assign(bits, value) ==
    [bits EXCEPT !.value = Some(mask(value, bits.max_bits))]

\* The shift in mask raises ValueError for a negative width.
MaskRaises(bits) == bits.max_bits < 0

---------------------------------------------------------------------------
(* BitFieldArray: each method as a function of the list self.data (and of  *)
(* _bits_sentinel), returning the new list, the exception and the result.  *)

Result(data, sentinel, err, ret) ==
    [data |-> data, sentinel |-> sentinel, err |-> err, ret |-> ret]

\* BitFieldArray.__init__: one empty BitField per width, in order.
new_array(fields) == [i \in 1..Len(fields) |-> BitField(fields[i])]

\* Indices of the empty slots, as the generator of assign() yields them.
NullIndices(data) == {i \in 1..Len(data) : is_null(data[i])}

Min(S) == CHOOSE x \in S : \A y \in S : x <= y

\* assign(value) falling back on the last slot: next(generator, self.data[-1]).
assign_int_last_slot(data, sentinel, value) ==
    IF NullIndices(data) = {} /\ Len(data) = 0
    THEN Result(data, sentinel, "IndexError", "raised")
    ELSE LET i == IF NullIndices(data) = {} THEN Len(data)
                  ELSE Min(NullIndices(data)) IN
         IF MaskRaises(data[i])
         THEN Result(data, sentinel, "ValueError", "raised")
         ELSE Result([data EXCEPT ![i] = slot_assign(data[i], value)],
                     sentinel, "none", "self")

\* assign(value) with an int: the first empty slot, else _bits_sentinel.
assign_int(data, sentinel, value) ==
    IF NullIndices(data) = {}
    THEN Result(data, slot_assign(sentinel, value), "none", "self")
    ELSE LET i == Min(NullIndices(data)) IN
         IF MaskRaises(data[i])
         THEN Result(data, sentinel, "ValueError", "raised")
         ELSE Result([data EXCEPT ![i] = slot_assign(data[i], value)],
                     sentinel, "none", "self")

\* assign(values) zipped with every slot, filled or not: zip(values, self.data).
RECURSIVE assign_zip_every_slot(_, _, _, _, _)
assign_zip_every_slot(data, sentinel, values, i, j) ==
    IF j > Len(values) \/ i > Len(data)
    THEN Result(data, sentinel, "none", "self")
    ELSE IF MaskRaises(data[i])
    THEN Result(data, sentinel, "ValueError", "raised")
    ELSE assign_zip_every_slot(
             [data EXCEPT ![i] = slot_assign(data[i], values[j])],
             sentinel, values, i + 1, j + 1)

\* assign(values) with an iterable: zip(values, empty slots), left to right.
\* i is the generator's position in self.data, j the position in values.
RECURSIVE assign_zip(_, _, _, _, _)
assign_zip(data, sentinel, values, i, j) ==
    IF j > Len(values) \/ i > Len(data)
    THEN Result(data, sentinel, "none", "self")
    ELSE IF ~is_null(data[i])
    THEN assign_zip(data, sentinel, values, i + 1, j)
    ELSE IF MaskRaises(data[i])
    THEN Result(data, sentinel, "ValueError", "raised")
    ELSE assign_zip([data EXCEPT ![i] = slot_assign(data[i], values[j])],
                    sentinel, values, i + 1, j + 1)

assign_iterable(data, sentinel, values) ==
    assign_zip(data, sentinel, values, 1, 1)

\* delete with an index past either end clamped to the nearest slot.
delete_clamped(data, sentinel, index) ==
    LET n == Len(data)
        at == IF index < 0 THEN index + n ELSE index
        to == IF at < 0 THEN 0 ELSE IF at >= n THEN n - 1 ELSE at
    IN IF n = 0
       THEN Result(data, sentinel, "IndexError", "raised")
       ELSE Result([k \in 1..(n - 1) |->
                       IF k <= to THEN data[k] ELSE data[k + 1]],
                   sentinel, "none", "None")

\* del self.data[index]: Python list indexing, negative indices from the end.
delete(data, sentinel, index) ==
    LET n == Len(data)
        at == IF index < 0 THEN index + n ELSE index
    IN IF at < 0 \/ at >= n
       THEN Result(data, sentinel, "IndexError", "raised")
       ELSE Result([k \in 1..(n - 1) |->
                       IF k <= at THEN data[k] ELSE data[k + 1]],
                   sentinel, "none", "None")

\* export() with `continue` for `break`: an empty slot is stepped over.
RECURSIVE export_loop_continue(_, _, _, _)
export_loop_continue(data, i, n, pushed) ==
    IF i > Len(data) THEN n
    ELSE IF is_null(data[i])
    THEN export_loop_continue(data, i + 1, n, pushed)
    ELSE export_loop_continue(data, i + 1,
                              BitOr(n, ShiftLeft(data[i].value[1], pushed)),
                              pushed + data[i].max_bits)

\* export(): the loop over self.data from slot i on, with n and pushed.
RECURSIVE export_loop(_, _, _, _)
export_loop(data, i, n, pushed) ==
    IF i > Len(data) THEN n
    ELSE IF is_null(data[i]) THEN n
    ELSE export_loop(data, i + 1,
                     BitOr(n, ShiftLeft(data[i].value[1], pushed)),
                     pushed + data[i].max_bits)

export(data) == export_loop(data, 1, 0, 0)

\* export_as_bytes with the byte order fixed to 'big'.
export_as_bytes_big(data, order) ==
    LET n == export(data)
    IN to_bytes(n, (bit_length(n) + 7) \div 8, "big")

\* export_as_bytes with at least one byte: max(1, (bit_length + 7) // 8).
export_as_bytes_one_byte(data, order) ==
    LET n == export(data)
        length == (bit_length(n) + 7) \div 8
    IN to_bytes(n, IF length = 0 THEN 1 ELSE length, order)

\* export_as_bytes(order)
export_as_bytes(data, order) ==
    LET n == export(data)
    IN to_bytes(n, (bit_length(n) + 7) \div 8, order)

\* to_list(): the values in slot order, None for an empty slot.
to_list(data) == [i \in 1..Len(data) |-> data[i].value]

\* from_int's loop with `value >>= 1` for `value >>= bits.max_bits`.
RECURSIVE from_int_data_shift_one(_, _, _)
from_int_data_shift_one(data, i, value) ==
    IF i > Len(data) THEN <<>>
    ELSE <<BitAnd(value, ShiftLeft(1, data[i].max_bits) - 1)>>
         \o from_int_data_shift_one(data, i + 1, ShiftRight(value, 1))

\* from_int(value): the list `data` built by the loop, slot by slot.
RECURSIVE from_int_data(_, _, _)
from_int_data(data, i, value) ==
    IF i > Len(data) THEN <<>>
    ELSE <<BitAnd(value, ShiftLeft(1, data[i].max_bits) - 1)>>
         \o from_int_data(data, i + 1, ShiftRight(value, data[i].max_bits))

\* from_int(value): a negative width raises in the loop, before assign().
from_int(data, sentinel, value) ==
    IF \E i \in 1..Len(data) : MaskRaises(data[i])
    THEN Result(data, sentinel, "ValueError", "raised")
    ELSE assign_iterable(data, sentinel, from_int_data(data, 1, value))

\* from_bytes(value, order)
from_bytes(data, sentinel, value, order) ==
    from_int(data, sentinel, int_from_bytes(value, order))

---------------------------------------------------------------------------
(* The calls a program makes *)

NoInputs == [fields |-> <<>>, values |-> <<>>]

Called(op, a, args, data, r) ==
    /\ arrays' = (a :> r.data) @@ arrays
    /\ bits_sentinel' = r.sentinel
    /\ last' = [op |-> op, arr |-> a, args |-> args, err |-> r.err,
                ret |-> r.ret, before |-> arrays, sentinel |-> bits_sentinel]
    /\ UNCHANGED given

Built(a) == a \in DOMAIN arrays

\* No call is being looked at: the caller is between two calls.
NoCall == [op |-> "idle", arr |-> "", args |-> <<>>, err |-> "none",
           ret |-> "None", before |-> <<>>, sentinel |-> <<>>]

Idle == last.op = "idle"

\* The caller is done with the outcome of the last call.
Forget ==
    /\ ~Idle
    /\ last' = NoCall
    /\ UNCHANGED <<arrays, bits_sentinel, given>>

\* a = BitFieldArray(*fields)
Construct(a, fields) ==
    /\ ~Built(a)
    /\ Called("construct", a, fields, <<>>,
              Result(new_array(fields), bits_sentinel, "none", "self"))

\* a.assign(value), value an int
AssignInt(a, value) ==
    /\ Built(a)
    /\ Called("assign_int", a, value, arrays[a],
              assign_int(arrays[a], bits_sentinel, value))

\* a.assign(values), values a list
AssignIterable(a, values) ==
    /\ Built(a)
    /\ Called("assign_iterable", a, values, arrays[a],
              assign_iterable(arrays[a], bits_sentinel, values))

\* a[i].assign(value): BitField.assign on one slot of the list
SlotAssign(a, i, value) ==
    /\ Built(a)
    /\ i \in 1..Len(arrays[a])
    /\ Called("slot_assign", a, <<i, value>>, arrays[a],
              IF MaskRaises(arrays[a][i])
              THEN Result(arrays[a], bits_sentinel, "ValueError", "raised")
              ELSE Result([arrays[a] EXCEPT
                             ![i] = slot_assign(arrays[a][i], value)],
                          bits_sentinel, "none", "None"))

\* a.delete(index)
Delete(a, index) ==
    /\ Built(a)
    /\ Called("delete", a, index, arrays[a],
              delete(arrays[a], bits_sentinel, index))

\* a.export()
Export(a) ==
    /\ Built(a)
    /\ Called("export", a, <<>>, arrays[a],
              Result(arrays[a], bits_sentinel, "none", export(arrays[a])))

\* a.export_as_bytes(order)
ExportAsBytes(a, order) ==
    /\ Built(a)
    /\ Called("export_as_bytes", a, order, arrays[a],
              Result(arrays[a], bits_sentinel, "none",
                     export_as_bytes(arrays[a], order)))

\* a.to_list()
ToList(a) ==
    /\ Built(a)
    /\ Called("to_list", a, <<>>, arrays[a],
              Result(arrays[a], bits_sentinel, "none", to_list(arrays[a])))

\* a.from_int(value)
FromInt(a, value) ==
    /\ Built(a)
    /\ Called("from_int", a, value, arrays[a],
              from_int(arrays[a], bits_sentinel, value))

\* a.from_bytes(value, order)
FromBytes(a, value, order) ==
    /\ Built(a)
    /\ Called("from_bytes", a, <<value, order>>, arrays[a],
              from_bytes(arrays[a], bits_sentinel, value, order))

---------------------------------------------------------------------------
(* One array, every method *)

Init ==
    /\ arrays = <<>>
    /\ bits_sentinel = BitField(0)
    /\ last = NoCall
    /\ given = NoInputs

Next ==
    \/ \E fields \in SeqsUpTo(Widths, MaxFields) :
          Idle /\ Construct("A", fields)
    \/ \E value \in Values :
          Idle /\ AssignInt("A", value)
    \/ \E values \in SeqsUpTo(BulkValues, MaxValues) :
          Idle /\ AssignIterable("A", values)
    \/ \E i \in 1..MaxFields, value \in Values :
          Idle /\ SlotAssign("A", i, value)
    \/ \E index \in -(MaxFields + 1)..MaxFields :
          Idle /\ Delete("A", index)
    \/ Idle /\ Export("A")
    \/ \E order \in Orders :
          Idle /\ ExportAsBytes("A", order)
    \/ Idle /\ ToList("A")
    \/ \E value \in IntValues :
          Idle /\ FromInt("A", value)
    \/ \E value \in SeqsUpTo(ByteValues, MaxBytes), order \in Orders :
          Idle /\ FromBytes("A", value, order)
    \/ Forget

Spec == Init /\ [][Next]_vars

---------------------------------------------------------------------------
(* Two arrays and the shared _bits_sentinel *)

Pair == {"A", "B"}

NextPair ==
    \/ \E a \in Pair, fields \in SeqsUpTo(Widths, MaxPairFields) :
          Idle /\ Construct(a, fields)
    \/ \E a \in Pair, value \in PairValues :
          Idle /\ AssignInt(a, value)
    \/ Forget

SpecPair == Init /\ [][NextPair]_vars

---------------------------------------------------------------------------
(* The round trip: A is filled and exported, a fresh B of the same widths  *)
(* decodes what A exported.                                                *)

\* The value lists in range for the widths: 0 <= v[i] < 2^fields[i].
RECURSIVE InRange(_)
InRange(fields) ==
    IF fields = <<>> THEN {<<>>}
    ELSE {<<v>> \o rest : v \in 0..(2 ^ Head(fields) - 1),
                          rest \in InRange(Tail(fields))}

InitTrip ==
    /\ \E fields \in SeqsUpTo(TripWidths, MaxTripFields) :
          \E values \in InRange(fields) :
             /\ given = [fields |-> fields, values |-> values]
             /\ arrays = [a \in Pair |-> new_array(fields)]
    /\ bits_sentinel = BitField(0)
    /\ last = NoCall

NextTrip ==
    \/ last.op = "idle" /\ AssignIterable("A", given.values)
    \/ last.op = "assign_iterable" /\ Export("A")
    \/ last.op = "export" /\ FromInt("B", last.ret)
    \/ \E order \in Orders :
          last.op = "assign_iterable" /\ ExportAsBytes("A", order)
    \/ last.op = "export_as_bytes" /\ FromBytes("B", last.ret, last.args)

SpecTrip == InitTrip /\ [][NextTrip]_vars

---------------------------------------------------------------------------
(* The constructor on any list of integers *)

NextCtor ==
    \/ \E fields \in SeqsUpTo(AnyWidths, MaxCtorFields) :
          Idle /\ Construct("A", fields)
    \/ \E value \in Values :
          Idle /\ AssignInt("A", value)
    \/ \E values \in SeqsUpTo(BulkValues, MaxValues) :
          Idle /\ AssignIterable("A", values)
    \/ \E value \in IntValues :
          Idle /\ FromInt("A", value)
    \/ Idle /\ Export("A")
    \/ Idle /\ ToList("A")
    \/ Forget

SpecCtor == Init /\ [][NextCtor]_vars

---------------------------------------------------------------------------
(* What the claims are stated with: arithmetic on integers, not the        *)
(* bitwise operators the methods use.                                      *)

\* The low w bits of v.
LowBits(v, w) == v % (2 ^ w)

\* Bit b of v.
BitSet(v, b) == (v \div (2 ^ b)) % 2 = 1

RECURSIVE WidthBefore(_, _)
\* The sum of max_bits of the slots before slot i.
WidthBefore(data, i) ==
    IF i <= 1 THEN 0 ELSE WidthBefore(data, i - 1) + data[i - 1].max_bits

\* The number of slots before the first empty one.
FilledPrefix(data) ==
    IF NullIndices(data) = {} THEN Len(data) ELSE Min(NullIndices(data)) - 1

\* The positions of the set bits of v, for 0 <= v < 2^(top + 1).
BitsOf(v, top) == {b \in 0..top : BitSet(v, b)}

RECURSIVE SumOfPowers(_)
\* The number whose set bits are at the positions in S.
SumOfPowers(S) ==
    IF S = {} THEN 0
    ELSE LET b == CHOOSE x \in S : TRUE
         IN 2 ^ b + SumOfPowers(S \ {b})

\* The OR of value << (width before) over the first k slots: a bit is set
\* when some slot sets it.
OrOfShifted(data, k) ==
    SumOfPowers(UNION {
        {b + WidthBefore(data, i) :
            b \in BitsOf(data[i].value[1], data[i].max_bits + 1)}
        : i \in 1..k})

\* The number of empty slots before slot i.
NullsBefore(data, i) == Cardinality({j \in NullIndices(data) : j < i})

SameShape(d, b) ==
    /\ Len(d) = Len(b)
    /\ \A i \in 1..Len(b) : d[i].max_bits = b[i].max_bits

Now == arrays[last.arr]
Before == last.before[last.arr]

---------------------------------------------------------------------------
(* C1 *)

\* C1: in an array built from positive widths every non-empty slot holds a
\* value in 0..2^max_bits - 1; the slot a call assigns holds the raw value
\* it was given reduced to its low max_bits bits; assigning never raises.
C1_MaskedValue ==
    /\ \A a \in DOMAIN arrays : \A i \in 1..Len(arrays[a]) :
          ~is_null(arrays[a][i]) =>
              /\ arrays[a][i].value[1] >= 0
              /\ arrays[a][i].value[1] < 2 ^ arrays[a][i].max_bits
    /\ last.op \in {"assign_int", "assign_iterable", "slot_assign",
                    "from_int", "from_bytes"} => last.err = "none"
    /\ last.op = "slot_assign" =>
          Now[last.args[1]].value
             = Some(LowBits(last.args[2], Now[last.args[1]].max_bits))
    /\ (last.op = "assign_int" /\ NullIndices(Before) # {}) =>
          LET i == Min(NullIndices(Before))
          IN Now[i].value = Some(LowBits(last.args, Now[i].max_bits))
    /\ last.op = "assign_iterable" =>
          \A i \in 1..Len(Now) :
              Now[i] # Before[i] =>
                  \E j \in 1..Len(last.args) :
                      Now[i].value = Some(LowBits(last.args[j], Now[i].max_bits))

\* An oversized 7 went into an empty two-bit slot and was stored as 3.
C1_Witness ==
    /\ last.op = "assign_int"
    /\ last.args = 7
    /\ last.err = "none"
    /\ \E i \in 1..Len(Before) :
          /\ is_null(Before[i])
          /\ Now[i] = [max_bits |-> 2, value |-> Some(3)]

---------------------------------------------------------------------------
(* C2 *)

\* C2: export() is the OR, over the slots before the first empty one, of
\* the slot's value shifted left by the widths before it; slots from the
\* first empty one on add nothing; it is 0 when slot 0 is empty.
C2_ExportPrefix ==
    /\ \A a \in DOMAIN arrays :
          /\ export(arrays[a]) = OrOfShifted(arrays[a], FilledPrefix(arrays[a]))
          /\ FilledPrefix(arrays[a]) = 0 => export(arrays[a]) = 0
    /\ last.op = "export" =>
          /\ last.ret = OrOfShifted(Before, FilledPrefix(Before))
          /\ Now = Before

\* export() returned slot 0 alone although a slot after the gap is filled.
C2_Witness ==
    /\ last.op = "export"
    /\ Len(Now) >= 3
    /\ ~is_null(Now[1]) /\ Now[1].value[1] # 0
    /\ is_null(Now[2])
    /\ ~is_null(Now[3]) /\ Now[3].value[1] # 0
    /\ last.ret = Now[1].value[1]

---------------------------------------------------------------------------
(* C5 *)

\* C5: from_int(value) gives every slot that was empty the bits at its own
\* position, (value >> widths before it) & (2^max_bits - 1); a slot that
\* was filled keeps its value; no slot stays empty; the shape is unchanged.
C5_FromIntPositional ==
    last.op = "from_int" =>
        /\ SameShape(Now, Before)
        /\ \A i \in 1..Len(Before) :
              /\ ~is_null(Now[i])
              /\ IF is_null(Before[i])
                 THEN Now[i].value =
                        Some(LowBits(last.args \div (2 ^ WidthBefore(Before, i)),
                                     Before[i].max_bits))
                 ELSE Now[i] = Before[i]

---------------------------------------------------------------------------
(* C6 *)

\* C6: assign(values) gives the k-th empty slot the k-th value, masked to
\* the slot's width, for k < min(m, e); filled slots and the empty slots
\* beyond keep their state; surplus values raise nothing; same shape.
C6_BulkAssign ==
    last.op = "assign_iterable" =>
        /\ last.err = "none"
        /\ SameShape(Now, Before)
        /\ \A i \in 1..Len(Before) :
              LET k == NullsBefore(Before, i)
              IN IF is_null(Before[i]) /\ k < Len(last.args)
                 THEN Now[i].value =
                        Some(LowBits(last.args[k + 1], Before[i].max_bits))
                 ELSE Now[i] = Before[i]

\* Two values went to the two empty slots around a filled one: the filled
\* slot was stepped over and kept, and the second value, too wide for its
\* slot, was stored truncated.
C6_Witness ==
    /\ last.op = "assign_iterable"
    /\ Len(last.args) = 2
    /\ Len(Before) = 3
    /\ is_null(Before[1]) /\ ~is_null(Before[2]) /\ is_null(Before[3])
    /\ Now[2] = Before[2]
    /\ last.args[2] >= 2 ^ Before[3].max_bits
    /\ ~is_null(Now[3])

---------------------------------------------------------------------------
(* C8 *)

\* C8 as claimed: delete(index) with index outside 0..len-1, negative
\* indices included, raises IndexError and leaves the array unchanged.
C8_DeleteOutside0ToLen ==
    (last.op = "delete" /\ last.args \notin 0..(Len(Before) - 1)) =>
        /\ last.err = "IndexError"
        /\ Now = Before

\* C8 amended: delete(index) with index outside -len..len-1 raises
\* IndexError and leaves the array unchanged; an index in -len..-1 counts
\* from the end and removes slot len+index without error.
C8_DeleteOutOfRange ==
    /\ (last.op = "delete"
          /\ last.args \notin (-Len(Before))..(Len(Before) - 1)) =>
            /\ last.err = "IndexError"
            /\ Now = Before
    /\ (last.op = "delete" /\ last.args \in (-Len(Before))..(-1)) =>
            /\ last.err = "none"
            /\ Len(Now) = Len(Before) - 1
            /\ \A k \in 1..Len(Now) :
                  Now[k] = IF k <= Len(Before) + last.args
                           THEN Before[k] ELSE Before[k + 1]

\* delete(-len-1) on an array holding a value raised IndexError.
C8_Witness ==
    /\ last.op = "delete"
    /\ Len(Before) >= 2
    /\ last.args = -Len(Before) - 1
    /\ last.err = "IndexError"
    /\ \E i \in 1..Len(Now) : ~is_null(Now[i])

---------------------------------------------------------------------------
(* C10 *)

\* C10 as claimed: when export() is 0, export_as_bytes(order) returns
\* exactly one zero byte.
C10_ZeroIsOneByte ==
    (last.op = "export_as_bytes" /\ export(Before) = 0) => last.ret = <<0>>

\* C10 amended: when export() is 0, export_as_bytes(order) returns the
\* empty byte string, for both orders.
C10_ZeroIsNoByte ==
    (last.op = "export_as_bytes" /\ export(Before) = 0) =>
        /\ last.ret = <<>>
        /\ last.args \in Orders

\* The filled prefix holds only zeros and the byte string came back empty.
C10_Witness ==
    /\ last.op = "export_as_bytes"
    /\ Len(Before) >= 2
    /\ ~is_null(Before[1]) /\ ~is_null(Before[2])
    /\ export(Before) = 0
    /\ last.ret = <<>>

---------------------------------------------------------------------------
(* C3, C4 *)

\* What to_list() shows for a list of values.
AsList(values) == [i \in 1..Len(values) |-> Some(values[i])]

TotalWidth(fields) == WidthBefore(new_array(fields), Len(fields) + 1)

\* C3: with in-range values bulk-assigned to a fresh A, a fresh B of the
\* same widths that calls from_int(A.export()) has to_list() equal to the
\* values, zeros included.
C3_IntRoundTrip ==
    last.op = "from_int" =>
        /\ last.err = "none"
        /\ last.args = export(arrays["A"])
        /\ to_list(arrays["A"]) = AsList(given.values)
        /\ to_list(arrays["B"]) = AsList(given.values)

\* Three values, the last of them 0 and the first not, came back from the
\* integer A exported.
C3_Witness ==
    /\ last.op = "from_int"
    /\ Len(given.values) = 3
    /\ given.values[1] # 0
    /\ given.values[3] = 0
    /\ last.args # 0
    /\ to_list(arrays["B"]) = AsList(given.values)

\* C4: the same through from_bytes(A.export_as_bytes(order), order), for
\* both byte orders, also when the packed integer is 0 or its top bytes are.
C4_ByteRoundTrip ==
    last.op = "from_bytes" =>
        /\ last.err = "none"
        /\ last.args[1] = export_as_bytes(arrays["A"], last.args[2])
        /\ last.args[2] \in Orders
        /\ to_list(arrays["A"]) = AsList(given.values)
        /\ to_list(arrays["B"]) = AsList(given.values)

\* More than eight bits of fields packed into a single byte, the top byte
\* of the packed integer being zero, came back in little-endian order.
C4_Witness ==
    /\ last.op = "from_bytes"
    /\ last.args[2] = "little"
    /\ TotalWidth(given.fields) > 8
    /\ Len(last.args[1]) = 1
    /\ last.args[1] # <<0>>
    /\ to_list(arrays["B"]) = AsList(given.values)

---------------------------------------------------------------------------
(* C7 *)

\* C7: assign(v) with an int writes only the first empty slot, with v
\* masked to its width; on an array with no empty slot it raises nothing
\* and leaves to_list() and export() of that array and of every other
\* array as they were, whatever was assigned to full arrays before.
C7_ScalarAssign ==
    last.op = "assign_int" =>
        /\ last.err = "none"
        /\ DOMAIN arrays = DOMAIN last.before
        /\ \A b \in DOMAIN arrays \ {last.arr} :
              /\ arrays[b] = last.before[b]
              /\ to_list(arrays[b]) = to_list(last.before[b])
              /\ export(arrays[b]) = export(last.before[b])
        /\ IF NullIndices(Before) = {}
           THEN /\ Now = Before
                /\ to_list(Now) = to_list(Before)
                /\ export(Now) = export(Before)
           ELSE LET i == Min(NullIndices(Before))
                IN Now = [Before EXCEPT
                            ![i].value = Some(LowBits(last.args,
                                                      Before[i].max_bits))]

\* A second assign to a full array, with another array alive and filled:
\* the sentinel already held what the first such call left in it.
C7_Witness ==
    /\ last.op = "assign_int"
    /\ last.arr = "A"
    /\ last.args = 7
    /\ Len(Before) = 2
    /\ NullIndices(Before) = {}
    /\ last.sentinel.value = Some(0)
    /\ "B" \in DOMAIN arrays
    /\ Len(arrays["B"]) = 2
    /\ NullIndices(arrays["B"]) = {}
    /\ export(arrays["B"]) # 0

---------------------------------------------------------------------------
(* C9 *)

\* C9: the constructor rejects a field list that is empty or holds a
\* negative width, so no array with zero slots or with a negative-width
\* slot comes out of it.
C9_ConstructorRejects ==
    last.op = "construct" =>
        /\ (last.args = <<>> \/ \E i \in 1..Len(last.args) : last.args[i] < 0)
              => last.err # "none"
        /\ Len(Now) >= 1
        /\ \A i \in 1..Len(Now) : Now[i].max_bits >= 0

====
